---- MODULE Spec2Model ----
(***************************************************************************)
(* Model of the buffered pipeline of examples/pipeline: Block (the stage   *)
(* runner of Block.cpp), Buffered_Socket (the port of Buffered_Socket.cpp) *)
(* and Circular_Buffer (the ring buffer behind every port).                *)
(*                                                                         *)
(* A record (std::vector<T> of n_elt elements) is abstracted to one        *)
(* natural number: 0 is the T(0) content of a fresh record, k >= 1 is the  *)
(* k-th record the producing task writes.                                  *)
(***************************************************************************)
EXTENDS Integers, Sequences, FiniteSets, TLC

\* ------------------------------------------------------------------ bounds
MaxRec   == 3      \* records the producing task writes before it runs dry
MaxBinds == 2      \* binding calls made before the stages are run
MaxDup   == 1      \* records a ring shared by several poppers hands out twice
MaxWild  == 1      \* records read through a missing or wild buffer[0]
MaxThreads == 2    \* worker threads of the stages that are run together
MaxResets == 1     \* Buffered_Socket::reset calls made by a direct caller
MaxBlockResets == 2  \* Block::reset calls made after a run

\* ------------------------------------------------------- program constants
buffer_size == 2   \* capacity handed to every Block (main.cpp passes 8)

\* --------------------------------------------------------- static topology
\* The stages built before binding, with the ports their tasks declare.
Blocks == {"source", "sink", "sink2", "mon", "chan"}

\* Blocks whose run() is called.
RunBlocks == {"source", "sink", "sink2", "mon"}

n_threads ==
  [b \in Blocks |-> IF b = "sink2" THEN 2 ELSE 1]

\* Socket_type of a port
SckIN  == "IN"
SckOUT == "OUT"

\* the scalar kinds in the order Block::bind tries them
KindOrder == <<"int8", "int16", "int32", "int64", "float32", "float64">>

Ports == {"source.U_K", "sink.U", "sink2.U", "mon.U", "mon.V", "chan.Y_N"}

PortDef ==
  [p \in Ports |->
     CASE p = "source.U_K" -> [blk |-> "source", name |-> "U_K", dir |-> SckOUT, kind |-> "int32"]
       [] p = "sink.U"     -> [blk |-> "sink",   name |-> "U",   dir |-> SckIN,  kind |-> "int32"]
       [] p = "sink2.U"    -> [blk |-> "sink2",  name |-> "U",   dir |-> SckIN,  kind |-> "int32"]
       [] p = "mon.U"      -> [blk |-> "mon",    name |-> "U",   dir |-> SckIN,  kind |-> "int32"]
       [] p = "mon.V"      -> [blk |-> "mon",    name |-> "V",   dir |-> SckIN,  kind |-> "int32"]
       [] p = "chan.Y_N"   -> [blk |-> "chan",   name |-> "Y_N", dir |-> SckOUT, kind |-> "float32"]]

\* names a caller may pass to Block::bind ("zz" is declared by no task)
Names == {"U_K", "U", "V", "Y_N", "zz"}

Null    == "null"  \* a null Buffered_Socket*
NullBuf == -1      \* a null Circular_Buffer*
Wild    == 0       \* a Circular_Buffer* read through a null Buffered_Socket*
NoRc    == -1      \* the call did not return

\* buffered_sockets_in / buffered_sockets_out of a Block: std::map iterates
\* in key order, so the ports of a stage are visited as a fixed sequence.
buffered_sockets_in(b) ==
  CASE b = "sink"  -> <<"sink.U">>
    [] b = "sink2" -> <<"sink2.U">>
    [] b = "mon"   -> <<"mon.U", "mon.V">>
    [] OTHER       -> <<>>

buffered_sockets_out(b) ==
  CASE b = "source" -> <<"source.U_K">>
    [] b = "chan"   -> <<"chan.Y_N">>
    [] OTHER        -> <<>>

\* worker threads: <<block, task_id>>
Workers == {w \in Blocks \X (1..2) : w[2] <= n_threads[w[1]]}

\* threads that use the ports directly, without a Block
Clients == {<<"prod", 1>>, <<"cons", 1>>, <<"cons", 2>>}

Threads == Workers \cup Clients

VARIABLES
  socket_data,   \* Buffered_Socket::socket_data : port -> staging records
  buffer,        \* Buffered_Socket::buffer      : port -> Circular_Buffer ids
  rings,         \* the Circular_Buffer objects allocated so far, by id
  isDone,        \* the stop flag handed to Block::run
  pc,            \* position of every thread
  idx,           \* worker: index of the port the for loop is at
  bi,            \* thread inside push/wait_push: index i of the buffer loop
  emitted,       \* records written so far by the producing task of a block
  nbinds,        \* binding calls made so far
  lastcall,      \* the last Block::bind / Block::reset call: its case (for
                 \* reset: the block) and its result code
  nresets,       \* reset() calls made so far
  crashed,       \* the process died (undefined behaviour took that outcome)
  ran,           \* blocks whose run() was called
  joined,        \* blocks whose join() returned
  destroyed,     \* blocks whose destructor has run
  pushers,       \* ghost: threads that pushed into a ring
  poppers,       \* ghost: threads that popped from a ring
  pushed,        \* ghost: records accepted by a ring, in order
  popped,        \* ghost: records taken out of a ring, in order
  recv,          \* ghost: records delivered to an input port by pop
  execd,         \* ghost: records a block's task was executed on
  fails          \* ghost: the non-blocking ops that found no room / no record

vars == <<socket_data, buffer, rings, isDone, pc, idx, bi, emitted, nbinds,
          lastcall, nresets, crashed, ran, joined, destroyed, pushers, poppers, pushed, popped,
          recv, execd, fails>>

portVars   == <<socket_data, buffer>>
ghostVars  == <<pushers, poppers, pushed, popped, recv, execd, fails>>
setupVars  == <<nbinds, lastcall, nresets>>
threadVars == <<pc, idx, bi>>

\* ---------------------------------------------------------- Circular_Buffer
\* A ring of buffer_size record slots with a write cursor (head), a read
\* cursor (tail), the count of occupied slots and the stopped flag.
NewRing ==
  [slots |-> [k \in 0..(buffer_size - 1) |-> 0],
   head |-> 0, tail |-> 0, cur_buffer_nbr |-> 0, stopped |-> FALSE]

is_full(r)  == r.cur_buffer_nbr = buffer_size
is_empty(r) == r.cur_buffer_nbr = 0

\* the ring after a push of rec that found a free slot
RingPush(r, rec) ==
  [r EXCEPT !.slots[r.head] = rec,
            !.head = (r.head + 1) % buffer_size,
            !.cur_buffer_nbr = r.cur_buffer_nbr + 1]

\* the oldest occupied record, and the ring after it was popped
RingFront(r) == r.slots[r.tail]

RingPop(r) ==
  [r EXCEPT !.tail = (r.tail + 1) % buffer_size,
            !.cur_buffer_nbr = r.cur_buffer_nbr - 1]

RingStop(r)  == [r EXCEPT !.stopped = TRUE]

RingReset(r) == [r EXCEPT !.head = 0, !.tail = 0, !.cur_buffer_nbr = 0,
                          !.stopped = FALSE]

\* ------------------------------------------------------------ type dispatch
InPortsOf(b)  == {p \in Ports : PortDef[p].blk = b /\ PortDef[p].dir = SckIN}
OutPortsOf(b) == {p \in Ports : PortDef[p].blk = b /\ PortDef[p].dir # SckIN}

\* Block::get_buffered_socket_in<T>(name)
get_buffered_socket_in(b, name, T) ==
  IF \E p \in InPortsOf(b) : PortDef[p].name = name
  THEN LET p == CHOOSE q \in InPortsOf(b) : PortDef[q].name = name
       IN  IF PortDef[p].kind = T THEN p ELSE Null
  ELSE Null

\* Block::get_buffered_socket_out<T>(name)
get_buffered_socket_out(b, name, T) ==
  IF \E p \in OutPortsOf(b) : PortDef[p].name = name
  THEN LET p == CHOOSE q \in OutPortsOf(b) : PortDef[q].name = name
       IN  IF PortDef[p].kind = T THEN p ELSE Null
  ELSE Null

\* NT_Buffered_Socket::get_last_buffer
get_last_buffer(s) ==
  IF Len(buffer[s]) = 0 THEN NullBuf ELSE buffer[s][Len(buffer[s])]

\* The if-chain of Block::bind: the first kind T, in the order int8 .. double,
\* for which this block has an input port of that name and kind, with the
\* Buffered_Socket<T>* looked up on the destination block for the same T.
RECURSIVE BindDispatch(_, _, _, _, _)
BindDispatch(this, start_sck_name, dest_block, dest_sck_name, k) ==
  IF k > Len(KindOrder)
  THEN [found |-> FALSE, in |-> Null, out |-> Null]
  ELSE IF get_buffered_socket_in(this, start_sck_name, KindOrder[k]) # Null
       THEN [found |-> TRUE,
             in  |-> get_buffered_socket_in(this, start_sck_name, KindOrder[k]),
             out |-> get_buffered_socket_out(dest_block, dest_sck_name, KindOrder[k])]
       ELSE BindDispatch(this, start_sck_name, dest_block, dest_sck_name, k + 1)

\* which case of the binding contract a Block::bind call is
\*   "no_in"    : this block declares no input port of that name
\*   "no_out"   : the destination block declares no output port of that name
\*   "mismatch" : both ports exist and their scalar kinds differ
\*   "ok"       : both ports exist and have the same kind
BindCase(this, start_sck_name, dest_block, dest_sck_name) ==
  IF ~ \E p \in InPortsOf(this) : PortDef[p].name = start_sck_name
  THEN "no_in"
  ELSE IF ~ \E q \in OutPortsOf(dest_block) : PortDef[q].name = dest_sck_name
       THEN "no_out"
       ELSE LET p == CHOOSE x \in InPortsOf(this) : PortDef[x].name = start_sck_name
                q == CHOOSE x \in OutPortsOf(dest_block) : PortDef[x].name = dest_sck_name
            IN  IF PortDef[p].kind = PortDef[q].kind THEN "ok" ELSE "mismatch"

\* --------------------------------------------------------------------- Init
\* Block::Block builds one Buffered_Socket per declared port, and the
\* Buffered_Socket constructor gives every port one zeroed staging record and
\* every OUT / IN_OUT port one Circular_Buffer.
FirstRing(p) == IF p = "source.U_K" THEN 1 ELSE 2

NoCall == [op |-> "none", cls |-> "none", rc |-> 0]

Init ==
  /\ socket_data = [p \in Ports |-> <<0>>]
  /\ buffer = [p \in Ports |->
                 IF PortDef[p].dir = SckIN THEN <<>> ELSE <<FirstRing(p)>>]
  /\ rings = <<NewRing, NewRing>>
  /\ isDone = FALSE
  /\ pc = [t \in Threads |-> "idle"]
  /\ idx = [t \in Threads |-> 1]
  /\ bi = [t \in Threads |-> 1]
  /\ emitted = [b \in Blocks |-> 0]
  /\ nbinds = 0
  /\ lastcall = NoCall
  /\ nresets = 0
  /\ crashed = FALSE
  /\ ran = {}
  /\ joined = {}
  /\ destroyed = {}
  /\ pushers = <<{}, {}>>
  /\ poppers = <<{}, {}>>
  /\ pushed = << <<>>, <<>> >>
  /\ popped = << <<>>, <<>> >>
  /\ recv = [p \in Ports |-> <<>>]
  /\ execd = [b \in Blocks |-> <<>>]
  /\ fails = {}

\* ------------------------------------------------- Buffered_Socket: binding
\* faulty variant of CreateNewOutBuffer: the new ring gets no staging record
CreateNewOutBuffer_NoStaging(s) ==
  /\ UNCHANGED socket_data
  /\ rings' = Append(rings, NewRing)
  /\ pushers' = Append(pushers, {})
  /\ poppers' = Append(poppers, {})
  /\ pushed' = Append(pushed, <<>>)
  /\ popped' = Append(popped, <<>>)

\* Buffered_Socket<T>::create_new_out_buffer on port s
CreateNewOutBuffer(s) ==
  /\ socket_data' = [socket_data EXCEPT ![s] = Append(@, 0)]
  /\ rings' = Append(rings, NewRing)
  /\ pushers' = Append(pushers, {})
  /\ poppers' = Append(poppers, {})
  /\ pushed' = Append(pushed, <<>>)
  /\ popped' = Append(popped, <<>>)

\* faulty variant of Buffered_Socket_bind: the reference appended is the
\* other port's first buffer, not its last
Buffered_Socket_bind_First(this, s, op, cls) ==
  IF get_last_buffer(s) = NullBuf
  THEN /\ lastcall' = [op |-> op, cls |-> cls, rc |-> 1]
       /\ UNCHANGED buffer
  ELSE /\ buffer' = [buffer EXCEPT ![this] = Append(@, buffer[s][1])]
       /\ lastcall' = [op |-> op, cls |-> cls, rc |-> 0]

\* Buffered_Socket<T>::bind(s) called on port this; op and cls only label the
\* call in lastcall
Buffered_Socket_bind(this, s, op, cls) ==
  IF get_last_buffer(s) = NullBuf
  THEN /\ lastcall' = [op |-> op, cls |-> cls, rc |-> 1]
       /\ UNCHANGED buffer
  ELSE /\ buffer' = [buffer EXCEPT ![this] = Append(@, get_last_buffer(s))]
       /\ lastcall' = [op |-> op, cls |-> cls, rc |-> 0]

\* Buffered_Socket<T>::bind(nullptr): s->get_last_buffer() reads through a
\* null pointer. The build may fault, read a null Circular_Buffer* or read a
\* wild one.
NullDerefOutcomes == {"crash", "null", "wild"}

Buffered_Socket_bind_null(this, op, cls) ==
  \E o \in NullDerefOutcomes :
     /\ crashed' = (o = "crash")
     /\ buffer' = IF o = "wild"
                  THEN [buffer EXCEPT ![this] = Append(@, Wild)]
                  ELSE buffer
     /\ lastcall' = [op |-> op, cls |-> cls,
                     rc |-> CASE o = "crash" -> NoRc
                              [] o = "null"  -> 1
                              [] o = "wild"  -> 0]

\* Block::bind(start_sck_name, dest_block, dest_sck_name) called on block this
Block_bind(this, start_sck_name, dest_block, dest_sck_name) ==
  /\ ~crashed
  /\ ran = {}
  /\ nbinds < MaxBinds
  /\ nbinds' = nbinds + 1
  /\ LET d   == BindDispatch(this, start_sck_name, dest_block, dest_sck_name, 1)
         cls == BindCase(this, start_sck_name, dest_block, dest_sck_name)
     IN  IF ~d.found
         THEN /\ lastcall' = [op |-> "Block::bind", cls |-> cls, rc |-> 1]
              /\ UNCHANGED <<buffer, crashed>>
         ELSE IF d.out = Null
              THEN Buffered_Socket_bind_null(d.in, "Block::bind", cls)
              ELSE /\ Buffered_Socket_bind(d.in, d.out, "Block::bind", cls)
                   /\ UNCHANGED crashed
  /\ UNCHANGED <<socket_data, rings, isDone, threadVars, emitted, nresets, ran,
                 joined, destroyed, ghostVars>>

\* Buffered_Socket<T>::bind(s) called directly on an input port
Sock_bind(this, s) ==
  /\ ~crashed
  /\ ran = {}
  /\ nbinds < MaxBinds
  /\ PortDef[this].dir = SckIN
  /\ s # this
  /\ PortDef[s].kind = PortDef[this].kind
  /\ nbinds' = nbinds + 1
  /\ Buffered_Socket_bind(this, s, "bind", "ok")
  /\ UNCHANGED <<socket_data, rings, isDone, threadVars, emitted, nresets,
                 crashed, ran, joined, destroyed, ghostVars>>

\* Buffered_Socket<T>::bind_cpy(s) called directly on an input port
Sock_bind_cpy(this, s) ==
  /\ ~crashed
  /\ ran = {}
  /\ nbinds < MaxBinds
  /\ PortDef[this].dir = SckIN
  /\ s # this
  /\ PortDef[s].kind = PortDef[this].kind
  /\ nbinds' = nbinds + 1
  /\ IF get_last_buffer(s) = NullBuf
     THEN /\ lastcall' = [op |-> "bind_cpy", cls |-> "ok", rc |-> 1]
          /\ UNCHANGED <<socket_data, buffer, rings, crashed, pushers, poppers,
                         pushed, popped>>
     ELSE IF PortDef[s].dir = SckIN
          THEN \* assert(socket_type != IN) of create_new_out_buffer fails
               /\ crashed' = TRUE
               /\ lastcall' = [op |-> "bind_cpy", cls |-> "ok", rc |-> NoRc]
               /\ UNCHANGED <<socket_data, buffer, rings, pushers, poppers,
                              pushed, popped>>
          ELSE /\ CreateNewOutBuffer(s)
               /\ buffer' = [buffer EXCEPT
                               ![s]    = Append(@, Len(rings) + 1),
                               ![this] = Append(@, Len(rings) + 1)]
               /\ lastcall' = [op |-> "bind_cpy", cls |-> "ok", rc |-> 0]
               /\ UNCHANGED crashed
  /\ UNCHANGED <<isDone, threadVars, emitted, nresets, ran, joined, destroyed, recv, execd,
                 fails>>

\* ------------------------------------------------ Buffered_Socket: transfer
\* buffer[0] of the port does not exist, or is not a Circular_Buffer
BadBuf(p) == Len(buffer[p]) = 0 \/ buffer[p][1] = Wild

\* More than one thread pops from ring b: the cursor bookkeeping of a
\* Circular_Buffer is written for a single popping thread.
RacyPop(t, b) == Cardinality(poppers[b] \cup {t}) > 1

\* records ring b has handed out twice so far
Dups(b) == Len(popped[b]) - (Len(pushed[b]) - rings[b].cur_buffer_nbr)

\* what indexing a missing or wild buffer[0] may do
BadBufOutcomes == {"crash", "retry", "garbage"}

\* buffer[0]->pop / wait_pop moves the oldest occupied record of ring b into
\* staging record zero of port p and advances the read cursor; with several
\* popping threads the advance of one of them may be lost
PopTransfer(t, p, b) ==
  LET r == rings[b]
  IN  /\ socket_data' = [socket_data EXCEPT ![p][1] = RingFront(r)]
      /\ popped' = [popped EXCEPT ![b] = Append(@, RingFront(r))]
      /\ recv' = [recv EXCEPT ![p] = Append(@, RingFront(r))]
      /\ \/ rings' = [rings EXCEPT ![b] = RingPop(r)]
         \/ /\ RacyPop(t, b)
            /\ Dups(b) < MaxDup
            /\ UNCHANGED rings

\* indexing a missing or wild buffer[0] in pop / wait_pop, returning rv
BadBufPop(p, rv) ==
  \E o \in BadBufOutcomes :
     /\ o = "garbage" => Len(recv[p]) < MaxWild
     /\ crashed' = (o = "crash")
     /\ rv = IF o = "garbage" THEN 0 ELSE 1
     /\ recv' = IF o = "garbage"
                THEN [recv EXCEPT ![p] = Append(@, socket_data[p][1])]
                ELSE recv
     /\ UNCHANGED <<socket_data, rings, poppers, popped, fails>>

\* faulty variant of Buffered_Socket_pop: the result of buffer[0]->pop is not tested,
\* the socket is rebound and 0 is returned also when the ring held no record
Buffered_Socket_pop_Unchecked(t, p, rv) ==
  IF BadBuf(p)
  THEN BadBufPop(p, rv)
  ELSE LET b == buffer[p][1]
       IN  /\ poppers' = [poppers EXCEPT ![b] = @ \cup {t}]
           /\ UNCHANGED <<crashed, fails>>
           /\ rv = 0
           /\ IF is_empty(rings[b])
              THEN /\ recv' = [recv EXCEPT ![p] = Append(@, socket_data[p][1])]
                   /\ UNCHANGED <<socket_data, rings, popped>>
              ELSE PopTransfer(t, p, b)

\* Buffered_Socket<T>::pop called by thread t on port p, returning rv
Buffered_Socket_pop(t, p, rv) ==
  IF BadBuf(p)
  THEN BadBufPop(p, rv)
  ELSE LET b == buffer[p][1]
       IN  /\ poppers' = [poppers EXCEPT ![b] = @ \cup {t}]
           /\ UNCHANGED crashed
           /\ IF is_empty(rings[b])
              THEN /\ rv = 1
                   /\ fails' = fails \cup {"pop"}
                   /\ UNCHANGED <<socket_data, rings, popped, recv>>
              ELSE /\ rv = 0
                   /\ PopTransfer(t, p, b)
                   /\ UNCHANGED fails

\* faulty variant of Buffered_Socket_wait_pop: the call does not wait for a
\* record, it takes the slot at the read cursor whatever the occupied count
Buffered_Socket_wait_pop_NoWait(t, p) ==
  IF BadBuf(p)
  THEN \E rv \in {0, 1} : BadBufPop(p, rv)
  ELSE LET b == buffer[p][1]
       IN  /\ poppers' = [poppers EXCEPT ![b] = @ \cup {t}]
           /\ UNCHANGED crashed
           /\ UNCHANGED fails
           /\ PopTransfer(t, p, b)

\* Buffered_Socket<T>::wait_pop called by thread t on port p: the call returns
\* once the ring holds a record or is stopped; a stopped ring transfers nothing
Buffered_Socket_wait_pop(t, p) ==
  IF BadBuf(p)
  THEN \E rv \in {0, 1} : BadBufPop(p, rv)
  ELSE LET b == buffer[p][1]
       IN  /\ ~is_empty(rings[b]) \/ rings[b].stopped
           /\ poppers' = [poppers EXCEPT ![b] = @ \cup {t}]
           /\ UNCHANGED crashed
           /\ UNCHANGED fails
           /\ IF rings[b].stopped
              THEN UNCHANGED <<socket_data, rings, popped, recv>>
              ELSE PopTransfer(t, p, b)

\* faulty variant of Replicate: the replication loop is left out
Replicate_None(sd) == sd

\* the replication loop at the head of Buffered_Socket<T>::push / wait_push:
\* socket_data[i] = socket_data[0] for every i >= 1
Replicate(sd) == [i \in 1..Len(sd) |-> sd[1]]

\* one evaluation of buffer[i]->push(&socket_data[i]) by thread t on port p,
\* returning rv (1: the ring was full)
Circular_Buffer_push(t, p, i, rv) ==
  LET b == buffer[p][i]
      r == rings[b]
  IN  /\ pushers' = [pushers EXCEPT ![b] = @ \cup {t}]
      /\ IF is_full(r)
         THEN /\ rv = 1
              /\ fails' = fails \cup {"push"}
              /\ UNCHANGED <<rings, pushed>>
         ELSE /\ rv = 0
              /\ rings' = [rings EXCEPT ![b] = RingPush(r, socket_data[p][i])]
              /\ pushed' = [pushed EXCEPT ![b] = Append(@, socket_data[p][i])]
              /\ UNCHANGED fails

\* buffer[i]->wait_push(&socket_data[i]) by thread t on port p: the call
\* returns once the ring has a free slot or is stopped; a stopped ring accepts
\* nothing
Circular_Buffer_wait_push(t, p, i) ==
  LET b == buffer[p][i]
      r == rings[b]
  IN  /\ ~is_full(r) \/ r.stopped
      /\ pushers' = [pushers EXCEPT ![b] = @ \cup {t}]
      /\ IF r.stopped
         THEN UNCHANGED <<rings, pushed>>
         ELSE /\ rings' = [rings EXCEPT ![b] = RingPush(r, socket_data[p][i])]
              /\ pushed' = [pushed EXCEPT ![b] = Append(@, socket_data[p][i])]

\* the rings the ports of the sequence ps reference
RECURSIVE BufsOf(_)
BufsOf(ps) ==
  IF ps = <<>> THEN {}
  ELSE {buffer[Head(ps)][k] : k \in 1..Len(buffer[Head(ps)])} \cup BufsOf(Tail(ps))

\* Buffered_Socket<T>::stop on every port of the sequence ps
StopAll(ps) ==
  rings' = [b \in 1..Len(rings) |->
              IF b \in BufsOf(ps) THEN RingStop(rings[b]) ELSE rings[b]]

\* ------------------------------------------------------------ the task exec
\* The producing task (no input port) writes record emitted+1 into staging
\* record zero of every output port; once it has written MaxRec records it
\* has nothing left and its exec returns, when the run is being stopped,
\* without writing.  A consuming task reads staging record zero of its input
\* ports.
TaskInput(b) ==
  [k \in 1..Len(buffered_sockets_in(b)) |-> socket_data[buffered_sockets_in(b)[k]][1]]

Task_exec(b) ==
  IF buffered_sockets_in(b) = <<>>
  THEN /\ emitted[b] < MaxRec \/ isDone
       /\ emitted' = [emitted EXCEPT ![b] = IF @ < MaxRec THEN @ + 1 ELSE @]
       /\ socket_data' =
            [p \in Ports |->
               IF PortDef[p].blk = b /\ PortDef[p].dir # SckIN /\ emitted[b] < MaxRec
               THEN [socket_data[p] EXCEPT ![1] = emitted[b] + 1]
               ELSE socket_data[p]]
       /\ UNCHANGED execd
  ELSE /\ execd' = [execd EXCEPT ![b] = Append(@, TaskInput(b))]
       /\ UNCHANGED <<emitted, socket_data>>

\* ----------------------------------------------------- Block::execute_task
\* Positions of a worker w = <<block, task_id>>:
\*   "while"   : the test of while(!(*isDone))
\*   "pop"     : the inner while of the input port idx
\*   "chk"     : if (*isDone) break
\*   "exec"    : tasks[task_id]->exec()
\*   "push"    : the inner while of the output port idx, before push() is entered
\*   "pushbuf" : inside Buffered_Socket::push, the retry loop of buffer bi
\*   "stop_out", "stop_in" : the two stop loops after the main loop
\*   "done"    : the thread function has returned
Ins(w)  == buffered_sockets_in(w[1])
Outs(w) == buffered_sockets_out(w[1])

W_While(w) ==
  /\ ~crashed
  /\ pc[w] = "while"
  /\ pc' = [pc EXCEPT ![w] = IF isDone THEN "stop_out"
                             ELSE IF Ins(w) = <<>> THEN "chk" ELSE "pop"]
  /\ idx' = [idx EXCEPT ![w] = 1]
  /\ UNCHANGED <<portVars, rings, isDone, bi, emitted, setupVars, crashed, ran,
                 joined, destroyed, ghostVars>>

\* the input loop moves to the next port, or leaves the for loop
NextIn(w) ==
  IF idx[w] < Len(Ins(w))
  THEN /\ idx' = [idx EXCEPT ![w] = @ + 1]
       /\ UNCHANGED pc
  ELSE /\ idx' = [idx EXCEPT ![w] = 1]
       /\ pc' = [pc EXCEPT ![w] = "chk"]

\* faulty variant of W_Pop: the result of pop is not tested, the input loop
\* moves on to the next port also when pop returned 1
W_Pop_NoRetry(w) ==
  /\ ~crashed
  /\ pc[w] = "pop"
  /\ IF isDone
     THEN /\ NextIn(w)
          /\ UNCHANGED <<socket_data, rings, crashed, poppers, popped, recv,
                         fails>>
     ELSE \E rv \in {0, 1} :
             /\ Buffered_Socket_pop(w, Ins(w)[idx[w]], rv)
             /\ NextIn(w)
  /\ UNCHANGED <<buffer, isDone, bi, emitted, setupVars, ran, joined, destroyed, pushers,
                 pushed, execd>>

\* while(!(*isDone) && it.second->pop(task_id)){}
W_Pop(w) ==
  /\ ~crashed
  /\ pc[w] = "pop"
  /\ IF isDone
     THEN /\ NextIn(w)
          /\ UNCHANGED <<socket_data, rings, crashed, poppers, popped, recv,
                         fails>>
     ELSE \E rv \in {0, 1} :
             /\ Buffered_Socket_pop(w, Ins(w)[idx[w]], rv)
             /\ IF rv = 1 THEN UNCHANGED <<pc, idx>> ELSE NextIn(w)
  /\ UNCHANGED <<buffer, isDone, bi, emitted, setupVars, ran, joined, destroyed, pushers,
                 pushed, execd>>

\* faulty variant of W_Chk: the break on the stop flag is left out
W_Chk_NoBreak(w) ==
  /\ ~crashed
  /\ pc[w] = "chk"
  /\ pc' = [pc EXCEPT ![w] = "exec"]
  /\ UNCHANGED <<portVars, rings, isDone, idx, bi, emitted, setupVars, crashed,
                 ran, joined, destroyed, ghostVars>>

W_Chk(w) ==
  /\ ~crashed
  /\ pc[w] = "chk"
  /\ pc' = [pc EXCEPT ![w] = IF isDone THEN "stop_out" ELSE "exec"]
  /\ UNCHANGED <<portVars, rings, isDone, idx, bi, emitted, setupVars, crashed,
                 ran, joined, destroyed, ghostVars>>

W_Exec(w) ==
  /\ ~crashed
  /\ pc[w] = "exec"
  /\ Task_exec(w[1])
  /\ pc' = [pc EXCEPT ![w] = IF Outs(w) = <<>> THEN "while" ELSE "push"]
  /\ idx' = [idx EXCEPT ![w] = 1]
  /\ UNCHANGED <<buffer, rings, isDone, bi, setupVars, crashed, ran, joined, destroyed,
                 pushers, poppers, pushed, popped, recv, fails>>

\* the output loop moves to the next port, or goes back to the while test
NextOut(w) ==
  IF idx[w] < Len(Outs(w))
  THEN /\ idx' = [idx EXCEPT ![w] = @ + 1]
       /\ pc' = [pc EXCEPT ![w] = "push"]
  ELSE /\ idx' = [idx EXCEPT ![w] = 1]
       /\ pc' = [pc EXCEPT ![w] = "while"]

\* while(!(*isDone) && it.second->push(task_id)){} : the flag test and, when
\* the flag is clear, the entry of push with its replication loop
W_Push(w) ==
  /\ ~crashed
  /\ pc[w] = "push"
  /\ IF isDone
     THEN /\ NextOut(w)
          /\ UNCHANGED <<socket_data, bi>>
     ELSE /\ socket_data' = [socket_data EXCEPT
                               ![Outs(w)[idx[w]]] = Replicate(@)]
          /\ bi' = [bi EXCEPT ![w] = 1]
          /\ pc' = [pc EXCEPT ![w] = "pushbuf"]
          /\ UNCHANGED idx
  /\ UNCHANGED <<buffer, rings, isDone, emitted, setupVars, crashed, ran,
                 joined, destroyed, ghostVars>>

\* faulty variant of W_PushBuf: the retry test of the push loop is inverted, the push
\* is repeated while it succeeds
W_PushBuf_Inverted(w) ==
  /\ ~crashed
  /\ pc[w] = "pushbuf"
  /\ \E rv \in {0, 1} :
        /\ Circular_Buffer_push(w, Outs(w)[idx[w]], bi[w], rv)
        /\ IF rv = 0
           THEN UNCHANGED <<pc, idx, bi>>
           ELSE IF bi[w] < Len(buffer[Outs(w)[idx[w]]])
                THEN /\ bi' = [bi EXCEPT ![w] = @ + 1]
                     /\ UNCHANGED <<pc, idx>>
                ELSE /\ bi' = [bi EXCEPT ![w] = 1]
                     /\ NextOut(w)
  /\ UNCHANGED <<portVars, isDone, emitted, setupVars, crashed, ran, joined, destroyed,
                 poppers, popped, recv, execd>>

\* faulty variant of W_PushBuf: the push is tried once per buffer and the
\* loop moves on also when the ring was full
W_PushBuf_GiveUp(w) ==
  /\ ~crashed
  /\ pc[w] = "pushbuf"
  /\ \E rv \in {0, 1} :
        /\ Circular_Buffer_push(w, Outs(w)[idx[w]], bi[w], rv)
        /\ IF bi[w] < Len(buffer[Outs(w)[idx[w]]])
           THEN /\ bi' = [bi EXCEPT ![w] = @ + 1]
                /\ UNCHANGED <<pc, idx>>
           ELSE /\ bi' = [bi EXCEPT ![w] = 1]
                /\ NextOut(w)
  /\ UNCHANGED <<portVars, isDone, emitted, setupVars, crashed, ran, joined,
                 destroyed, poppers, popped, recv, execd>>

\* while(this->buffer[i]->push(&this->socket_data[i])==1){} for i = bi, and
\* after the last buffer the return 0 of push, which ends the worker's while
W_PushBuf(w) ==
  /\ ~crashed
  /\ pc[w] = "pushbuf"
  /\ \E rv \in {0, 1} :
        /\ Circular_Buffer_push(w, Outs(w)[idx[w]], bi[w], rv)
        /\ IF rv = 1
           THEN UNCHANGED <<pc, idx, bi>>
           ELSE IF bi[w] < Len(buffer[Outs(w)[idx[w]]])
                THEN /\ bi' = [bi EXCEPT ![w] = @ + 1]
                     /\ UNCHANGED <<pc, idx>>
                ELSE /\ bi' = [bi EXCEPT ![w] = 1]
                     /\ NextOut(w)
  /\ UNCHANGED <<portVars, isDone, emitted, setupVars, crashed, ran, joined, destroyed,
                 poppers, popped, recv, execd>>

\* faulty variant of W_StopOut: the output ports are not stopped
W_StopOut_Skip(w) ==
  /\ ~crashed
  /\ pc[w] = "stop_out"
  /\ pc' = [pc EXCEPT ![w] = "stop_in"]
  /\ UNCHANGED <<portVars, rings, isDone, idx, bi, emitted, setupVars, crashed,
                 ran, joined, destroyed, ghostVars>>

\* for (it : buffered_sockets_out) it.second->stop();
W_StopOut(w) ==
  /\ ~crashed
  /\ pc[w] = "stop_out"
  /\ StopAll(Outs(w))
  /\ pc' = [pc EXCEPT ![w] = "stop_in"]
  /\ UNCHANGED <<portVars, isDone, idx, bi, emitted, setupVars, crashed, ran,
                 joined, destroyed, ghostVars>>

\* for (it : buffered_sockets_in) it.second->stop();  stop() on a wild
\* Circular_Buffer* may fault
W_StopIn(w) ==
  /\ ~crashed
  /\ pc[w] = "stop_in"
  /\ StopAll(Ins(w))
  /\ \/ /\ Wild \in BufsOf(Ins(w))
        /\ crashed' = TRUE
        /\ UNCHANGED pc
     \/ /\ pc' = [pc EXCEPT ![w] = "done"]
        /\ UNCHANGED crashed
  /\ UNCHANGED <<portVars, isDone, idx, bi, emitted, setupVars, ran, joined, destroyed,
                 ghostVars>>

\* --------------------------------------------------- Block::run, Block::join
\* main calls run() on every block of S, one after the other; the workers
\* start in any order.  The binding phase is over.
RunStages(S) ==
  /\ ~crashed
  /\ ran = {}
  /\ S # {}
  /\ ran' = S
  /\ pc' = [t \in Threads |-> IF t \in Workers /\ t[1] \in S THEN "while" ELSE pc[t]]
  /\ nbinds' = 0
  /\ lastcall' = NoCall
  /\ UNCHANGED <<portVars, rings, isDone, idx, bi, emitted, nresets, crashed,
                 joined, destroyed, ghostVars>>

\* run() of the stages of S, for the sets of stages whose workers together
\* are at most MaxThreads
Run(S) ==
  /\ Cardinality({w \in Workers : w[1] \in S}) <= MaxThreads
  /\ RunStages(S)

\* join() returns once every worker of block b has returned
Join(b) ==
  /\ ~crashed
  /\ b \in ran \ joined
  /\ \A w \in Workers : w[1] = b => pc[w] = "done"
  /\ joined' = joined \cup {b}
  /\ UNCHANGED <<portVars, rings, isDone, threadVars, emitted, setupVars,
                 crashed, ran, destroyed, ghostVars>>

\* the owner of the stop flag sets it
SetDone ==
  /\ ~crashed
  /\ ran # {}
  /\ ~isDone
  /\ isDone' = TRUE
  /\ UNCHANGED <<portVars, rings, threadVars, emitted, setupVars, crashed, ran,
                 joined, destroyed, ghostVars>>

Setup ==
  \E this \in Blocks, dest \in Blocks, n1 \in Names, n2 \in Names :
     Block_bind(this, n1, dest, n2)

Next ==
  \/ Setup
  \/ \E S \in SUBSET RunBlocks : Run(S)
  \/ \E b \in Blocks : Join(b)
  \/ SetDone
  \/ \E w \in Workers : W_While(w)
  \/ \E w \in Workers : W_Pop(w)
  \/ \E w \in Workers : W_Chk(w)
  \/ \E w \in Workers : W_Exec(w)
  \/ \E w \in Workers : W_Push(w)
  \/ \E w \in Workers : W_PushBuf(w)
  \/ \E w \in Workers : W_StopOut(w)
  \/ \E w \in Workers : W_StopIn(w)

Spec == Init /\ [][Next]_vars

\* ------------------------------------------------- a stage with two workers
\* main.cpp with the second Block built with n_threads = 2: the producing
\* stage and a consuming stage of two workers, bound by
\* bind("U", source, "U_K") and run together.
ParStages == {"source", "sink2"}

ParSetup == Block_bind("sink2", "U", "source", "U_K")

ParNext ==
  \/ ParSetup
  \/ RunStages(ParStages)
  \/ \E b \in ParStages : Join(b)
  \/ SetDone
  \/ \E w \in Workers : W_While(w)
  \/ \E w \in Workers : W_Pop(w)
  \/ \E w \in Workers : W_Chk(w)
  \/ \E w \in Workers : W_Exec(w)
  \/ \E w \in Workers : W_Push(w)
  \/ \E w \in Workers : W_PushBuf(w)
  \/ \E w \in Workers : W_StopOut(w)
  \/ \E w \in Workers : W_StopIn(w)

ParSpec == Init /\ [][ParNext]_vars

\* ------------------------------------------------------------ Block::~Block
\* ~Buffered_Socket of port p deletes every entry of the buffer list of an
\* OUT port and no ring of an IN port (and the staging records of both).
Deleted(p) == IF PortDef[p].dir = SckIN THEN <<>> ELSE buffer[p]

\* the delete calls made so far on ring r: <<port, position in its list>>
Deletes(r) ==
  UNION {{<<p, i>> : i \in {j \in 1..Len(Deleted(p)) : Deleted(p)[j] = r}} :
           p \in {q \in Ports : PortDef[q].blk \in destroyed}}

\* the rings the next step of worker w reads or writes
Touches(w) ==
  CASE pc[w] = "pop" /\ ~isDone /\ Len(buffer[Ins(w)[idx[w]]]) > 0
         -> {buffer[Ins(w)[idx[w]]][1]}
    [] pc[w] = "pushbuf" -> {buffer[Outs(w)[idx[w]]][bi[w]]}
    [] pc[w] = "stop_out" -> BufsOf(Outs(w))
    [] pc[w] = "stop_in"  -> BufsOf(Ins(w))
    [] OTHER -> {}

\* ~Block of a stage whose join() has returned: the destructor body deletes
\* the input ports, then the output ports; it calls neither stop nor join
\* and looks at no other stage.  Deleting a ring a second time is undefined.
Block_destroy(b) ==
  /\ ~crashed
  /\ b \in joined \ destroyed
  /\ destroyed' = destroyed \cup {b}
  /\ IF \E p \in Ports : /\ PortDef[p].blk = b
                         /\ \E i \in 1..Len(Deleted(p)) :
                               \/ Deletes(Deleted(p)[i]) # {}
                               \/ \E j \in 1..Len(Deleted(p)) :
                                     j # i /\ Deleted(p)[j] = Deleted(p)[i]
     THEN crashed' \in BOOLEAN
     ELSE UNCHANGED crashed
  /\ UNCHANGED <<portVars, rings, isDone, threadVars, emitted, setupVars, ran,
                 joined, ghostVars>>

\* the next step of worker w uses a ring that has been deleted: undefined
\* behaviour; the process may die here, or the step may find the memory
\* still intact and go on as the worker actions describe
W_UseAfterFree(w) ==
  /\ ~crashed
  /\ \E r \in Touches(w) : r # Wild /\ Deletes(r) # {}
  /\ crashed' = TRUE
  /\ UNCHANGED <<portVars, rings, isDone, threadVars, emitted, setupVars, ran,
                 joined, destroyed, ghostVars>>

\* main.cpp: the producing and the consuming stage, bound by
\* bind("U", source, "U_K"), run and joined; each stage is destroyed once
\* its own join has returned.
MainStages == {"source", "sink"}

MainSetup == Block_bind("sink", "U", "source", "U_K")

TeardownNext ==
  \/ MainSetup
  \/ RunStages(MainStages)
  \/ \E b \in MainStages : Join(b)
  \/ SetDone
  \/ \E w \in Workers : W_While(w)
  \/ \E w \in Workers : W_Pop(w)
  \/ \E w \in Workers : W_Chk(w)
  \/ \E w \in Workers : W_Exec(w)
  \/ \E w \in Workers : W_Push(w)
  \/ \E w \in Workers : W_PushBuf(w)
  \/ \E w \in Workers : W_StopOut(w)
  \/ \E w \in Workers : W_StopIn(w)
  \/ \E b \in MainStages : Block_destroy(b)
  \/ \E w \in Workers : W_UseAfterFree(w)

TeardownSpec == Init /\ [][TeardownNext]_vars

\* ------------------------------------------- direct use of Buffered_Socket
\* Three threads use the ports without a Block: the producer writes records
\* into staging record zero of source.U_K and calls push() or wait_push();
\* each consumer calls pop() or wait_pop() on its own input port.  Positions:
\*   "ready"    : between two calls
\*   "pushbuf"  : inside push, the retry loop of buffer bi
\*   "wpushbuf" : inside wait_push, buffer[bi]->wait_push
\*   "wpop"     : inside wait_pop
ClientPort(t) ==
  CASE t = <<"prod", 1>> -> "source.U_K"
    [] t = <<"cons", 1>> -> "sink.U"
    [] t = <<"cons", 2>> -> "sink2.U"

Producers == {<<"prod", 1>>}
Consumers == {<<"cons", 1>>, <<"cons", 2>>}

\* the ports the three threads use
SockPorts == {"source.U_K", "sink.U", "sink2.U"}

SockSetup ==
  \/ \E this \in SockPorts, s \in SockPorts : Sock_bind(this, s)
  \/ \E this \in SockPorts, s \in SockPorts : Sock_bind_cpy(this, s)

\* the binding is over and the three threads are started
C_Start ==
  /\ ~crashed
  /\ ran = {}
  /\ ran' = {"clients"}
  /\ pc' = [t \in Threads |-> IF t \in Clients THEN "ready" ELSE pc[t]]
  /\ nbinds' = 0
  /\ lastcall' = NoCall
  /\ UNCHANGED <<portVars, rings, isDone, idx, bi, emitted, nresets, crashed,
                 joined, destroyed, ghostVars>>

\* the producer writes its next record and enters push() (next = "pushbuf")
\* or wait_push() (next = "wpushbuf"): the replication loop
C_PushCall(t, next) ==
  /\ ~crashed
  /\ pc[t] = "ready"
  /\ emitted["source"] < MaxRec
  /\ emitted' = [emitted EXCEPT !["source"] = @ + 1]
  /\ socket_data' = [socket_data EXCEPT ![ClientPort(t)] =
                       Replicate([@ EXCEPT ![1] = emitted["source"] + 1])]
  /\ bi' = [bi EXCEPT ![t] = 1]
  /\ pc' = [pc EXCEPT ![t] = next]
  /\ UNCHANGED <<buffer, rings, isDone, idx, setupVars, crashed, ran, joined, destroyed,
                 ghostVars>>

\* the buffer loop of push / wait_push moves on, or the call returns
NextBuf(t) ==
  IF bi[t] < Len(buffer[ClientPort(t)])
  THEN /\ bi' = [bi EXCEPT ![t] = @ + 1]
       /\ UNCHANGED pc
  ELSE /\ bi' = [bi EXCEPT ![t] = 1]
       /\ pc' = [pc EXCEPT ![t] = "ready"]

\* faulty variant of C_PushBuf: the push is tried once, and a full ring is passed over
C_PushBuf_NoRetry(t) ==
  /\ ~crashed
  /\ pc[t] = "pushbuf"
  /\ \E rv \in {0, 1} :
        /\ Circular_Buffer_push(t, ClientPort(t), bi[t], rv)
        /\ NextBuf(t)
  /\ UNCHANGED <<portVars, isDone, idx, emitted, setupVars, crashed, ran,
                 joined, destroyed, poppers, popped, recv, execd>>

\* faulty variant of C_PushBuf: push returns once the first buffer has taken
\* the record, the other buffers of the port are not pushed to
C_PushBuf_FirstOnly(t) ==
  /\ ~crashed
  /\ pc[t] = "pushbuf"
  /\ \E rv \in {0, 1} :
        /\ Circular_Buffer_push(t, ClientPort(t), bi[t], rv)
        /\ IF rv = 1 THEN UNCHANGED <<pc, bi>>
           ELSE /\ bi' = [bi EXCEPT ![t] = 1]
                /\ pc' = [pc EXCEPT ![t] = "ready"]
  /\ UNCHANGED <<portVars, isDone, idx, emitted, setupVars, crashed, ran,
                 joined, destroyed, poppers, popped, recv, execd>>

\* push(): while(this->buffer[i]->push(&this->socket_data[i])==1){} for i = bi
C_PushBuf(t) ==
  /\ ~crashed
  /\ pc[t] = "pushbuf"
  /\ \E rv \in {0, 1} :
        /\ Circular_Buffer_push(t, ClientPort(t), bi[t], rv)
        /\ IF rv = 1 THEN UNCHANGED <<pc, bi>> ELSE NextBuf(t)
  /\ UNCHANGED <<portVars, isDone, idx, emitted, setupVars, crashed, ran,
                 joined, destroyed, poppers, popped, recv, execd>>

\* faulty variant of C_WaitPushBuf: the buffer is pushed to once without
\* waiting, and the loop moves on whether or not the ring took the record
C_WaitPushBuf_NoWait(t) ==
  /\ ~crashed
  /\ pc[t] = "wpushbuf"
  /\ \E rv \in {0, 1} : Circular_Buffer_push(t, ClientPort(t), bi[t], rv)
  /\ NextBuf(t)
  /\ UNCHANGED <<portVars, isDone, idx, emitted, setupVars, crashed, ran,
                 joined, destroyed, poppers, popped, recv, execd>>

\* wait_push(): this->buffer[i]->wait_push(&this->socket_data[i]) for i = bi
C_WaitPushBuf(t) ==
  /\ ~crashed
  /\ pc[t] = "wpushbuf"
  /\ Circular_Buffer_wait_push(t, ClientPort(t), bi[t])
  /\ NextBuf(t)
  /\ UNCHANGED <<portVars, isDone, idx, emitted, setupVars, crashed, ran,
                 joined, destroyed, poppers, popped, recv, execd, fails>>

\* a consumer calls pop()
C_Pop(t) ==
  /\ ~crashed
  /\ pc[t] = "ready"
  /\ t \in Consumers
  /\ \E rv \in {0, 1} : Buffered_Socket_pop(t, ClientPort(t), rv)
  /\ UNCHANGED <<buffer, isDone, threadVars, emitted, setupVars, ran, joined, destroyed,
                 pushers, pushed, execd>>

\* a consumer calls wait_pop()
C_WaitPopCall(t) ==
  /\ ~crashed
  /\ pc[t] = "ready"
  /\ t \in Consumers
  /\ pc' = [pc EXCEPT ![t] = "wpop"]
  /\ UNCHANGED <<portVars, rings, isDone, idx, bi, emitted, setupVars, crashed,
                 ran, joined, destroyed, ghostVars>>

\* wait_pop() returns
C_WaitPopRet(t) ==
  /\ ~crashed
  /\ pc[t] = "wpop"
  /\ Buffered_Socket_wait_pop(t, ClientPort(t))
  /\ pc' = [pc EXCEPT ![t] = "ready"]
  /\ UNCHANGED <<buffer, isDone, idx, bi, emitted, setupVars, ran, joined, destroyed,
                 pushers, pushed, execd>>

\* Buffered_Socket<T>::stop() is called on port p, one of the ports in use
Sock_stop(p) ==
  /\ ~crashed
  /\ ran = {"clients"}
  /\ \E t \in Clients : p = ClientPort(t)
  /\ Wild \notin BufsOf(<<p>>)
  /\ StopAll(<<p>>)
  /\ UNCHANGED <<portVars, isDone, threadVars, emitted, setupVars, crashed, ran,
                 joined, destroyed, ghostVars>>

SockNext ==
  \/ SockSetup
  \/ C_Start
  \/ \E t \in Producers : C_PushCall(t, "pushbuf")
  \/ \E t \in Producers : C_PushCall(t, "wpushbuf")
  \/ \E t \in Producers : C_PushBuf(t)
  \/ \E t \in Producers : C_WaitPushBuf(t)
  \/ \E t \in Consumers : C_Pop(t)
  \/ \E t \in Consumers : C_WaitPopCall(t)
  \/ \E t \in Consumers : C_WaitPopRet(t)
  \/ \E p \in Ports : Sock_stop(p)

SockSpec == Init /\ [][SockNext]_vars

\* --------------------------------------------------------------------- reset
\* Buffered_Socket<T>::reset on every port of the sequence ps
ResetAll(ps) ==
  rings' = [b \in 1..Len(rings) |->
              IF b \in BufsOf(ps) THEN RingReset(rings[b]) ELSE rings[b]]

\* no thread is inside a call on a port
Quiescent == \A t \in Clients : pc[t] \in {"idle", "ready"}

\* Buffered_Socket<T>::reset() is called on port p, one of the ports in use,
\* while no thread is pushing or popping
Sock_reset(p) ==
  /\ ~crashed
  /\ ran = {"clients"}
  /\ Quiescent
  /\ \E t \in Clients : p = ClientPort(t)
  /\ Wild \notin BufsOf(<<p>>)
  /\ nresets < MaxResets
  /\ nresets' = nresets + 1
  /\ ResetAll(<<p>>)
  /\ UNCHANGED <<portVars, isDone, threadVars, emitted, nbinds, lastcall,
                 crashed, ran, joined, destroyed, ghostVars>>

SockResetNext ==
  \/ SockNext
  \/ \E p \in Ports : Sock_reset(p)

SockResetSpec == Init /\ [][SockResetNext]_vars

\* faulty variant of Block_reset: only the input ports are reset
Block_reset_InOnly(b) ==
  /\ ~crashed
  /\ ran # {}
  /\ \A w \in Workers : pc[w] \in {"idle", "done"}
  /\ nresets < MaxBlockResets
  /\ lastcall.cls # b
  /\ nresets' = nresets + 1
  /\ lastcall' = [op |-> "Block::reset", cls |-> b, rc |-> 0]
  /\ ResetAll(buffered_sockets_in(b))
  /\ crashed' \in {FALSE, (Wild \in BufsOf(buffered_sockets_in(b)))}
  /\ UNCHANGED <<portVars, isDone, threadVars, emitted, nbinds, ran, joined, destroyed,
                 ghostVars>>

\* Block::reset() called on block b while no worker thread runs, a block
\* other than the one reset last: reset() on every input port, then on every
\* output port.  reset() through a wild Circular_Buffer* may fault.
Block_reset(b) ==
  /\ ~crashed
  /\ ran # {}
  /\ \A w \in Workers : pc[w] \in {"idle", "done"}
  /\ nresets < MaxBlockResets
  /\ lastcall.cls # b
  /\ nresets' = nresets + 1
  /\ lastcall' = [op |-> "Block::reset", cls |-> b, rc |-> 0]
  /\ ResetAll(buffered_sockets_in(b) \o buffered_sockets_out(b))
  /\ crashed' \in {FALSE, (Wild \in BufsOf(buffered_sockets_in(b)))}
  /\ UNCHANGED <<portVars, isDone, threadVars, emitted, nbinds, ran, joined, destroyed,
                 ghostVars>>

ResetNext ==
  \/ Next
  \/ \E b \in Blocks : Block_reset(b)

ResetSpec == Init /\ [][ResetNext]_vars

\* ----------------------------------------------------------------- fairness
\* Every started thread is scheduled again and again: a worker that can take
\* a step of execute_task takes one, and a call of push, wait_push or
\* wait_pop that can proceed does.  Nothing obliges a caller to make a new
\* call, nor the owner of the stop flag to set it.
WorkerStep(w) ==
  \/ W_While(w)
  \/ W_Pop(w)
  \/ W_Chk(w)
  \/ W_Exec(w)
  \/ W_Push(w)
  \/ W_PushBuf(w)
  \/ W_StopOut(w)
  \/ W_StopIn(w)

FairSpec == Spec /\ \A w \in Workers : WF_vars(WorkerStep(w))

CallStep(t) ==
  \/ C_PushBuf(t)
  \/ C_WaitPushBuf(t)
  \/ C_WaitPopRet(t)

FairSockSpec == SockSpec /\ \A t \in Clients : WF_vars(CallStep(t))

\* ------------------------------------------------------------------ helpers
IsPrefix(a, b) ==
  /\ Len(a) <= Len(b)
  /\ \A i \in 1..Len(a) : a[i] = b[i]

\* the records the producing task has written so far, in order
Produced == [k \in 1..emitted["source"] |-> k]

RingIds == 1..Len(rings)

\* ring b is used by at most one pushing and one popping thread
SPSC(b) == Cardinality(pushers[b]) <= 1 /\ Cardinality(poppers[b]) <= 1

\* the input ports that reference ring b
Readers(b) ==
  {p \in Ports : PortDef[p].dir = SckIN
                 /\ \E k \in 1..Len(buffer[p]) : buffer[p][k] = b}

\* every worker thread of a started block has returned
AllWorkersOut == \A w \in Workers : pc[w] \in {"idle", "done"}

\* ===================================================================== C1
\* the ring a bound input port pops from, when the producer's port owns it
FedBy(p) ==
  IF ~BadBuf(p) /\ \E k \in 1..Len(buffer["source.U_K"]) :
                       buffer["source.U_K"][k] = buffer[p][1]
  THEN buffer[p][1] ELSE Wild

\* C1: for every ring used by one pushing and one popping thread and not
\* stopped, under every interleaving of push / wait_push with pop / wait_pop,
\* the records delivered to the popping port so far are a prefix of the
\* records handed to push so far (same order, none twice), and once the
\* pushing call has returned every record handed over is either delivered or
\* still queued in the ring (none dropped).
C1_FIFO ==
  \A p \in {"sink.U", "sink2.U"} :
     LET b == FedBy(p)
     IN  (b # Wild /\ SPSC(b) /\ Readers(b) = {p} /\ ~rings[b].stopped)
         => /\ IsPrefix(recv[p], Produced)
            /\ pc[<<"prod", 1>>] = "ready"
                 => Len(recv[p]) + rings[b].cur_buffer_nbr = emitted["source"]

\* C1 witness: a ring with one pusher and one popper, never stopped, has
\* taken all MaxRec records (the write cursor wrapped around) and its reader
\* has been delivered at least two of them.
C1_Witness ==
  \E p \in {"sink.U", "sink2.U"} :
     /\ FedBy(p) # Wild
     /\ SPSC(FedBy(p))
     /\ Readers(FedBy(p)) = {p}
     /\ ~rings[FedBy(p)].stopped
     /\ Len(pushed[FedBy(p)]) = MaxRec
     /\ Len(recv[p]) >= 2
     /\ MaxRec > buffer_size


\* ===================================================================== C2
\* C2: in every reachable state of a pipeline built with Block, whatever the
\* thread count of a stage and whatever Block::bind calls were made before
\* run, every ring has at most one thread that ever pushes into it and at
\* most one thread that ever pops from it.
C2_OneWriterOneReader ==
  \A b \in RingIds : Cardinality(pushers[b]) <= 1 /\ Cardinality(poppers[b]) <= 1

\* ===================================================================== C3
\* the rings owned by output port o, and whether some input port is bound to o
Owned(o) == {buffer[o][k] : k \in 1..Len(buffer[o])}

BoundTo(o) == {p \in Ports : PortDef[p].dir = SckIN /\ BufsOf(<<p>>) \cap Owned(o) # {}}

\* C3: after any sequence of Block::bind calls that binds one or more input
\* ports to the same output port, the rings the output port owns are in
\* one-to-one correspondence with the input ports bound to it: no ring is
\* referenced by two input ports and no owned ring is left without a
\* consumer.
C3_OneQueuePerBinding ==
  \A o \in Ports :
     (PortDef[o].dir # SckIN /\ BoundTo(o) # {})
     => \A b \in Owned(o) : Cardinality(Readers(b)) = 1

\* ===================================================================== C4
\* the step is a Block::bind call of case cls
BindStep(cls) == nbinds' = nbinds + 1 /\ lastcall'.op = "Block::bind" /\ lastcall'.cls = cls

\* the call returned the error code and changed nothing of any port
FailedCleanly ==
  /\ lastcall'.rc = 1
  /\ ~crashed'
  /\ UNCHANGED <<socket_data, buffer, rings>>

\* C4: a Block::bind between two ports of different scalar kinds always
\* returns the BindingError code, leaves the buffer lists and staging records
\* of both ports as they were, and does not crash the process.
C4_MismatchFailsCleanly == [][BindStep("mismatch") => FailedCleanly]_vars

\* ===================================================================== C5
\* C5: a Block::bind that names a port that does not exist, be it the input
\* port of the consuming stage or the output port of the producing stage,
\* returns an error code, changes no port and does not crash the process.
C5_MissingPortFailsCleanly ==
  [][(BindStep("no_in") \/ BindStep("no_out")) => FailedCleanly]_vars

\* ===================================================================== C6
\* every input port of a started stage is bound to a ring of an output port
WellBound ==
  \A w \in Workers :
     w[1] \in ran => \A k \in 1..Len(Ins(w)) : ~BadBuf(Ins(w)[k])

\* C6: once the stop flag is set, every worker thread of every stage
\* eventually leaves Block::execute_task (so that Block::join returns), in
\* every interleaving, also when the worker is inside the push of an output
\* record into a ring that is full and whose consumer has stopped popping.
\* (Only pipelines whose started stages have every input port bound to a
\* ring are counted, and a process that died is not counted against the
\* claim.)
C6_StopLeadsToExit == (isDone /\ WellBound) ~> (AllWorkersOut \/ crashed)

\* ===================================================================== C7
\* source.U_K was bound to sink.U with bind and then to sink2.U with
\* bind_cpy: the output port owns two rings, one per input port
FanOut ==
  /\ Len(buffer["source.U_K"]) = 2
  /\ buffer["source.U_K"][1] # buffer["source.U_K"][2]
  /\ buffer["sink.U"]  = <<buffer["source.U_K"][1]>>
  /\ buffer["sink2.U"] = <<buffer["source.U_K"][2]>>

NoneStopped(o) == \A b \in Owned(o) : ~rings[b].stopped

\* each consumer has received, from its own ring, a prefix of the records
\* produced
FanOutPrefix ==
  (FanOut /\ NoneStopped("source.U_K"))
  => \A p \in {"sink.U", "sink2.U"} :
        /\ IsPrefix(recv[p], Produced)
        /\ recv[p] = popped[buffer[p][1]]

\* a producer that waits for room in one of its rings does so only while
\* every ring it has still to fill is full as well: no consumer with room in
\* its own ring is kept waiting for a record already produced
HeldBackOnlyByOwnRing ==
  \A t \in Producers :
     (FanOut /\ NoneStopped("source.U_K") /\ pc[t] \in {"pushbuf", "wpushbuf"})
     => \A j \in (bi[t] + 1)..Len(buffer[ClientPort(t)]) :
           is_full(rings[buffer[ClientPort(t)][bi[t]]])
           => is_full(rings[buffer[ClientPort(t)][j]])

\* C7 (as claimed): with one output port bound to two input ports, first
\* with bind and then with bind_cpy, both consumers receive the identical
\* sequence of produced records, each from its own ring, whatever their
\* rates: at every moment each consumer's received sequence is a prefix of
\* the produced sequence, and a consumer is held back only by the capacity
\* of its own ring.
C7_FanOutIndependent == FanOutPrefix /\ HeldBackOnlyByOwnRing

\* C7 (amended): with one output port bound to two input ports, first with
\* bind and then with bind_cpy, at every moment each consumer's received
\* sequence is a prefix of the produced sequence and comes from its own ring;
\* push fills the rings one after the other, so a consumer can also be held
\* back by the other consumer's ring being full.
C7_FanOutPrefix == FanOutPrefix

\* C7 witness: in the fan-out, nothing stopped, the two consumers have
\* drained at different rates: one has received every record produced, the
\* other none, and the producer has filled the slow consumer's ring.
C7_Witness ==
  /\ FanOut
  /\ NoneStopped("source.U_K")
  /\ emitted["source"] >= buffer_size
  /\ recv["sink2.U"] = Produced
  /\ recv["sink.U"] = <<>>
  /\ is_full(rings[buffer["sink.U"][1]])

\* ===================================================================== C8
\* the two-stage pipeline of main.cpp: source and sink, one worker each,
\* wired by sink.bind("U", source, "U_K") and run together
TwoStage ==
  /\ ran = {"source", "sink"}
  /\ buffer["sink.U"] = <<buffer["source.U_K"][1]>>

\* the inputs of the first k executions of a task that consumes records 1..k
Ascending(k) == [i \in 1..k |-> <<i>>]

PushRing(w) == rings[buffer[Outs(w)[idx[w]]][bi[w]]]
PopRing(w)  == rings[buffer[Ins(w)[idx[w]]][1]]

\* C9: a non-blocking push on a full ring fails (the caller has to retry) and
\* leaves cursors, occupied count and slot contents as they were; a
\* non-blocking pop on an empty ring fails (the caller has to retry) and
\* leaves the ring and the caller's staging record as they were.
C9_FailedTryChangesNothing ==
  [][\A w \in Workers :
       /\ (W_PushBuf(w) /\ is_full(PushRing(w)))
          => /\ UNCHANGED <<rings, socket_data>>
             /\ pc'[w] = "pushbuf" /\ bi'[w] = bi[w] /\ idx'[w] = idx[w]
       /\ (W_Pop(w) /\ ~isDone /\ ~BadBuf(Ins(w)[idx[w]]) /\ is_empty(PopRing(w)))
          => /\ UNCHANGED <<rings, socket_data, recv>>
             /\ pc'[w] = "pop" /\ idx'[w] = idx[w]]_vars

\* C9 witness: a worker's pop has found its ring empty and a worker's push
\* has found its ring full, and the pipeline runs on: the producer is in its
\* push loop at the full ring, which holds the records pushed before.
C9_Witness ==
  /\ fails = {"push", "pop"}
  /\ ~crashed
  /\ \E w \in Workers :
        /\ pc[w] = "pushbuf"
        /\ is_full(PushRing(w))
        /\ PushRing(w).slots = [k \in 0..(buffer_size - 1) |-> k + 1]

\* ===================================================================== C10
\* the ring the call that thread t is inside is at, and whether t is inside
\* a call on a ring that was stopped
CallRing(t) ==
  IF t \in Producers
  THEN buffer[ClientPort(t)][bi[t]]
  ELSE IF BadBuf(ClientPort(t)) THEN Wild ELSE buffer[ClientPort(t)][1]

InCallOnStopped(t) ==
  /\ pc[t] \in {"pushbuf", "wpushbuf", "wpop"}
  /\ CallRing(t) # Wild
  /\ rings[CallRing(t)].stopped

\* C10: after stop() on a ring, every thread blocked in wait_push or
\* wait_pop on it returns without completing a transfer, and every push,
\* pop, wait_push or wait_pop on the stopped ring returns instead of hanging.
\* (A process that died of undefined behaviour is not counted against the
\* claim.)
C10_StoppedCallsReturn ==
  /\ [][\A t \in Clients :
          /\ (C_WaitPushBuf(t) /\ rings[CallRing(t)].stopped)
             => UNCHANGED <<rings, pushed>>
          /\ (C_WaitPopRet(t) /\ InCallOnStopped(t))
             => UNCHANGED <<rings, socket_data, recv>>]_vars
  /\ \A t \in Clients :
        [](InCallOnStopped(t) => <>(pc[t] = "ready" \/ crashed))

\* ===================================================================== C11
\* records of ring b in flight: accepted by the ring and not yet taken out
InFlight(b) == Len(pushed[b]) - Len(popped[b])

\* the most rings an output port can own: its first one and one per binding
MaxOwned == 1 + MaxBinds

\* thread t, inside wait_push at buffer i of its port, gets past that buffer
WaitPushPasses(t, i) ==
  /\ pc[t] = "wpushbuf" /\ bi[t] = i
  /\ pc'[t] # "wpushbuf" \/ bi'[t] # i

\* C11: a producer that pushes with wait_push never has more than capacity
\* records in flight in a ring; while the ring is full (and not stopped) the
\* call does not get past it, so that with the consumer paused the producer
\* completes exactly capacity pushes and then blocks; the call gets past the
\* ring by completing exactly one push of its staging record, and it does so
\* whenever the ring has a free slot, that is when and only when the consumer
\* has drained one.
C11_Backpressure ==
  /\ [](\A b \in RingIds : InFlight(b) <= buffer_size)
  /\ [][\A t \in Producers : \A i \in 1..MaxOwned :
          (WaitPushPasses(t, i) /\ ~rings[CallRing(t)].stopped)
          => /\ ~is_full(rings[CallRing(t)])
             /\ pushed'[CallRing(t)] =
                  Append(pushed[CallRing(t)], socket_data[ClientPort(t)][i])
             /\ rings'[CallRing(t)].cur_buffer_nbr =
                  rings[CallRing(t)].cur_buffer_nbr + 1]_vars
  /\ \A t \in Producers : \A i \in 1..MaxOwned :
        (pc[t] = "wpushbuf" /\ bi[t] = i /\ ~is_full(rings[CallRing(t)]))
        ~> (pc[t] = "ready" \/ bi[t] # i \/ crashed)

\* C11 witness: the consumer has taken nothing, the producer has completed
\* exactly capacity pushes with wait_push and is blocked in the next one on
\* the full ring, which is not stopped.
C11_Witness ==
  \E t \in Producers :
     /\ pc[t] = "wpushbuf"
     /\ fails = {}
     /\ is_full(rings[CallRing(t)])
     /\ ~rings[CallRing(t)].stopped
     /\ Len(pushed[CallRing(t)]) = buffer_size
     /\ popped[CallRing(t)] = <<>>
     /\ Readers(CallRing(t)) # {}
     /\ emitted["source"] = buffer_size + 1

\* ===================================================================== C12
\* what a step may do to a ring r, giving r2: nothing, a stop, a reset, a
\* push into a free slot (the write cursor advances by one, the read cursor
\* stays) or a pop of an occupied slot (the read cursor advances by one, the
\* write cursor and the slots stay)
PushedInto(r, r2) ==
  /\ r.cur_buffer_nbr < buffer_size
  /\ r2.head = (r.head + 1) % buffer_size
  /\ r2.cur_buffer_nbr = r.cur_buffer_nbr + 1
  /\ r2.tail = r.tail /\ r2.stopped = r.stopped
  /\ \A k \in 0..(buffer_size - 1) : k # r.head => r2.slots[k] = r.slots[k]

PoppedFrom(r, r2) ==
  /\ r.cur_buffer_nbr > 0
  /\ r2.tail = (r.tail + 1) % buffer_size
  /\ r2.cur_buffer_nbr = r.cur_buffer_nbr - 1
  /\ r2.head = r.head /\ r2.stopped = r.stopped /\ r2.slots = r.slots

RingStepOk(r, r2) ==
  \/ r2 = r
  \/ r2 = RingStop(r)
  \/ r2 = RingReset(r)
  \/ PushedInto(r, r2)
  \/ PoppedFrom(r, r2)

\* the cursors and the occupied count of ring r agree
RingOk(r) ==
  /\ r.cur_buffer_nbr \in 0..buffer_size
  /\ r.head \in 0..(buffer_size - 1)
  /\ r.tail \in 0..(buffer_size - 1)
  /\ (r.tail + r.cur_buffer_nbr) % buffer_size = r.head

Fresh(r) ==
  r.head = 0 /\ r.tail = 0 /\ r.cur_buffer_nbr = 0 /\ ~r.stopped

\* the rings the ports of block b reference
Reached(b) ==
  BufsOf(buffered_sockets_in(b) \o buffered_sockets_out(b)) \ {Wild}

\* C13: reset() called while no worker thread runs leaves every ring it
\* reaches as a freshly constructed one (empty, cursors at the start,
\* stopped flag clear), whatever pushes, pops and stop() came before;
\* Block::reset reaches every ring of every port of the stage and no other;
\* and a ring reset a second time, through the other stage that references
\* it, is as it was after the first reset.
C13_ResetRestoresFresh ==
  [][\A b \in Blocks :
       (Block_reset(b) /\ ~crashed')
       => \A r \in RingIds :
             /\ r \in Reached(b) => Fresh(rings'[r])
             /\ r \notin Reached(b) => rings'[r] = rings[r]
             /\ Fresh(rings[r]) => rings'[r] = rings[r]]_vars

\* C13 witness: after a run of source and sink through one ring, which took
\* records, wrapped its cursors and was stopped, the ring was reset through
\* the producer's output port and then again through the consumer's input
\* port, and is fresh.
C13_Witness ==
  /\ ran = {"source", "sink"}
  /\ buffer["sink.U"] = <<buffer["source.U_K"][1]>>
  /\ nresets = 2
  /\ lastcall.cls = "sink"
  /\ Fresh(rings[buffer["source.U_K"][1]])
  /\ Len(pushed[buffer["source.U_K"][1]]) = MaxRec
  /\ Len(popped[buffer["source.U_K"][1]]) >= 1

\* ===================================================================== C14
\* the input port a Block::bind call of case "ok" resolves to
BindTarget(this, start_sck_name, dest_block, dest_sck_name) ==
  BindDispatch(this, start_sck_name, dest_block, dest_sck_name, 1).in

\* C14: an input port references exactly one ring once it is bound: a
\* Block::bind on an input port that is already bound returns the
\* BindingError code and leaves the port's buffer list as it was.
C14_RebindRejected ==
  [][\A this \in Blocks, dest \in Blocks, n1 \in Names, n2 \in Names :
       (/\ Block_bind(this, n1, dest, n2)
        /\ BindCase(this, n1, dest, n2) = "ok"
        /\ Len(buffer[BindTarget(this, n1, dest, n2)]) >= 1)
       => /\ lastcall'.rc = 1
          /\ UNCHANGED buffer]_vars

\* ===================================================================== C15
\* every input port of block b is bound to a ring of an output port
InputsBound(b) ==
  \A k \in 1..Len(buffered_sockets_in(b)) : ~BadBuf(buffered_sockets_in(b)[k])

\* records delivered to input port p and not yet executed on by its block
Pending(p) == Len(recv[p]) - Len(execd[PortDef[p].blk])

\* C15: a worker invokes exec at most once per iteration of its loop, and
\* only after every input port of the stage has delivered a record in that
\* iteration: every exec of a consuming stage takes a delivery of every
\* input port that no earlier exec took (exactly one per port for a stage
\* with one worker); and a worker that is polling its inputs, or has polled
\* them, with the stop flag set goes on to the stop loops without invoking
\* exec.
C15_ExecOncePerFullInput ==
  /\ [][\A w \in Workers :
          (W_Exec(w) /\ Ins(w) # <<>> /\ InputsBound(w[1]))
          => /\ Len(execd'[w[1]]) = Len(execd[w[1]]) + 1
             /\ \A k \in 1..Len(Ins(w)) :
                   /\ Pending(Ins(w)[k]) >= 1
                   /\ n_threads[w[1]] = 1 => Pending(Ins(w)[k]) = 1]_vars
  /\ [][\A w \in Workers :
          (isDone /\ pc[w] \in {"pop", "chk"} /\ pc'[w] # pc[w])
          => /\ pc'[w] \in {"pop", "chk", "stop_out"}
             /\ execd'[w[1]] = execd[w[1]]]_vars
  /\ [](\A w \in Workers :
          (n_threads[w[1]] = 1 /\ InputsBound(w[1]) /\ pc[w] # "exec")
          => \A k \in 1..Len(Ins(w)) :
                Pending(Ins(w)[k]) \in {0, 1}
                /\ (pc[w] = "pop" /\ k < idx[w] /\ ~isDone
                      => Pending(Ins(w)[k]) = 1))

\* C15 witness: the stage with two input ports has executed once on a full
\* set of inputs, has then been delivered a record on its first port only,
\* and has left its loop on the stop flag without a second exec.
C15_Witness ==
  /\ InputsBound("mon")
  /\ pc[<<"mon", 1>>] = "done"
  /\ isDone
  /\ Len(execd["mon"]) = 1
  /\ Len(recv["mon.U"]) = 2
  /\ Len(recv["mon.V"]) = 1

\* ===================================================================== C16
\* the rings referenced by the output ports and by the input ports of block b
OutRings(b) == BufsOf(buffered_sockets_out(b)) \ {Wild}
InRings(b)  == BufsOf(buffered_sockets_in(b)) \ {Wild}

AllStopped(R) == \A r \in R : rings[r].stopped

\* C16: a worker that has left its main loop calls stop() on every ring of
\* the output ports of its stage before it calls stop() on any ring of an
\* input port, it stops no ring while it is in the main loop, and once it
\* has returned every ring referenced by a port of the stage (the rings its
\* output ports own and the upstream rings its input ports are bound to) has
\* its stopped flag set.
C16_StopOutBeforeIn ==
  /\ [][\A w \in Workers :
          /\ (pc[w] = "stop_out" /\ pc'[w] # "stop_out")
             => /\ pc'[w] = "stop_in"
                /\ \A r \in RingIds :
                      rings'[r] = IF r \in OutRings(w[1])
                                  THEN RingStop(rings[r]) ELSE rings[r]
          /\ (pc[w] = "stop_in" /\ pc'[w] = "done")
             => /\ AllStopped(OutRings(w[1]))
                /\ \A r \in RingIds :
                      rings'[r] = IF r \in InRings(w[1])
                                  THEN RingStop(rings[r]) ELSE rings[r]
          /\ (pc[w] \notin {"stop_out", "stop_in"} /\ pc'[w] # pc[w])
             => \A r \in RingIds : rings'[r].stopped = rings[r].stopped]_vars
  /\ [](\A w \in Workers :
          /\ pc[w] \in {"stop_in", "done"} => AllStopped(OutRings(w[1]))
          /\ pc[w] = "done" => AllStopped(InRings(w[1])))

\* C16 witness: the consuming stage has left on the stop flag and returned
\* while the producing stage is still in its main loop: the ring between
\* them, which holds records, was stopped through the consumer's input port.
C16_Witness ==
  /\ ran = {"source", "sink"}
  /\ InputsBound("sink")
  /\ pc[<<"sink", 1>>] = "done"
  /\ pc[<<"source", 1>>] \in {"while", "chk", "exec", "push", "pushbuf"}
  /\ rings[buffer["sink.U"][1]].stopped
  /\ rings[buffer["sink.U"][1]].cur_buffer_nbr >= 1
  /\ buffer["sink.U"][1] \in OutRings("source")

\* ===================================================================== C17
\* the last record ring b accepted (0 when it has accepted none)
LastPushed(b) == IF pushed[b] = <<>> THEN 0 ELSE pushed[b][Len(pushed[b])]

\* ring b has accepted record rec
Accepted(b, rec) == \E k \in 1..Len(pushed[b]) : pushed[b][k] = rec

\* C17: Buffered_Socket::push returns only after every ring the output port
\* owns has accepted the record: while the call is at buffer i, the rings
\* before i have accepted the record of this call as their last one and the
\* rings from i on have not accepted it; the step that returns leaves every
\* owned ring with exactly one new record, equal to staging record zero at
\* the time of the call, and leaves the staging records as they were.
\* (Stated for a port none of whose rings has been stopped.)
C17_PushReachesEveryRing ==
  /\ [](\A t \in Producers :
          (pc[t] = "pushbuf" /\ NoneStopped(ClientPort(t)))
          => \A j \in 1..Len(buffer[ClientPort(t)]) :
                /\ socket_data[ClientPort(t)][j] = emitted["source"]
                /\ j < bi[t]
                     => LastPushed(buffer[ClientPort(t)][j]) = emitted["source"]
                /\ j >= bi[t]
                     => ~Accepted(buffer[ClientPort(t)][j], emitted["source"]))
  /\ [][\A t \in Producers :
          (pc[t] = "pushbuf" /\ pc'[t] = "ready" /\ NoneStopped(ClientPort(t)))
          => /\ \A j \in 1..Len(buffer[ClientPort(t)]) :
                   /\ LastPushed(buffer[ClientPort(t)][j])' = emitted["source"]
                   /\ \A k \in 1..(Len(pushed'[buffer[ClientPort(t)][j]]) - 1) :
                         pushed'[buffer[ClientPort(t)][j]][k] # emitted["source"]
             /\ socket_data' = socket_data]_vars

\* C17 witness: an output port that owns two rings has returned from the
\* push of its last record after a retry on a full ring: both rings have
\* accepted that record, and the slower consumer's ring is full.
C17_Witness ==
  /\ FanOut
  /\ NoneStopped("source.U_K")
  /\ pc[<<"prod", 1>>] = "ready"
  /\ emitted["source"] = MaxRec
  /\ "push" \in fails
  /\ \A j \in 1..2 : LastPushed(buffer["source.U_K"][j]) = MaxRec
  /\ \E j \in 1..2 : is_full(rings[buffer["source.U_K"][j]])

\* ===================================================================== C18
\* C18: Buffered_Socket::bind(other) returns 1 and leaves both ports as they
\* were when the other port has no buffer yet; otherwise it returns 0 and
\* appends to this port a reference to the other port's most recently
\* created buffer, and creates no ring and no staging record.
C18_BindResult ==
  [][\A this \in SockPorts, s \in SockPorts :
       Sock_bind(this, s)
       => /\ UNCHANGED <<socket_data, rings>>
          /\ IF Len(buffer[s]) = 0
             THEN lastcall'.rc = 1 /\ UNCHANGED buffer
             ELSE /\ lastcall'.rc = 0
                  /\ buffer'[this] = Append(buffer[this], buffer[s][Len(buffer[s])])
                  /\ \A q \in Ports \ {this} : buffer'[q] = buffer[q]]_vars

\* C18 witness: the output port was given a second ring by bind_cpy, and a
\* bind on another input port then returned 0 with a reference to that
\* second, most recently created ring.
C18_Witness ==
  /\ lastcall = [op |-> "bind", cls |-> "ok", rc |-> 0]
  /\ Len(buffer["source.U_K"]) = 2
  /\ buffer["source.U_K"][2] # buffer["source.U_K"][1]
  /\ \E p \in {"sink.U", "sink2.U"} : buffer[p] = <<buffer["source.U_K"][2]>>
  /\ Len(rings) = 3
  /\ Len(socket_data["source.U_K"]) = 2

\* ===================================================================== C19
\* the input loop of worker w has left port idx[w]
LeftPort(w) == pc'[w] = "chk" \/ idx'[w] = idx[w] + 1

\* C19: Buffered_Socket::pop never blocks; it returns 1 exactly when the
\* bound ring held no record, and then leaves the ring and the staging
\* record as they were; it returns 0 exactly when it has moved the oldest
\* occupied record of the ring into staging record zero (the read cursor
\* advances by one when the worker is the ring's only popper); and the
\* worker's input loop stays at the port while the result is 1 and leaves it
\* when the result is 0.
C19_PopResult ==
  /\ [](\A w \in Workers : (pc[w] = "pop" /\ ~crashed) => ENABLED W_Pop(w))
  /\ [][\A w \in Workers :
          (W_Pop(w) /\ ~isDone /\ ~BadBuf(Ins(w)[idx[w]]))
          => IF is_empty(PopRing(w))
             THEN /\ ~LeftPort(w)
                  /\ pc'[w] = "pop"
                  /\ UNCHANGED <<rings, socket_data, recv, popped>>
             ELSE /\ LeftPort(w)
                  /\ socket_data'[Ins(w)[idx[w]]][1] = RingFront(PopRing(w))
                  /\ recv'[Ins(w)[idx[w]]] =
                       Append(recv[Ins(w)[idx[w]]], RingFront(PopRing(w)))
                  /\ poppers'[buffer[Ins(w)[idx[w]]][1]] = {w}
                       => rings'[buffer[Ins(w)[idx[w]]][1]] = RingPop(PopRing(w))]_vars

\* C19 witness: the consumer's pop has found the ring empty at least once
\* and has since delivered the first two records in order; the second is in
\* its staging record and the read cursor has wrapped around.
C19_Witness ==
  /\ ran = {"source", "sink"}
  /\ InputsBound("sink")
  /\ "pop" \in fails
  /\ recv["sink.U"] = <<1, 2>>
  /\ socket_data["sink.U"][1] = 2
  /\ rings[buffer["sink.U"][1]].tail = 0
  /\ popped[buffer["sink.U"][1]] = <<1, 2>>

\* ===================================================================== C20
\* The one staging record a port has for its task is socket_data[p][1]
\* (the further entries of socket_data belong to the rings bind_cpy added,
\* not to workers).  Worker w holds the staging records of its stage's input
\* ports from its successful pops until its exec has read them.
HoldsStaging(w) == Ins(w) # <<>> /\ pc[w] = "exec"

\* C20: in a stage run with two or more workers, no two workers hold the
\* same staging record at once: a record one worker has popped into and is
\* about to execute on is not also popped into and executed on by another
\* worker of the stage.
C20_StagingPerWorker ==
  \A w1 \in Workers : \A w2 \in Workers :
     (/\ w1[1] = w2[1]
      /\ w1 # w2
      /\ w1[1] \in ran
      /\ n_threads[w1[1]] >= 2
      /\ InputsBound(w1[1]))
     => ~(HoldsStaging(w1) /\ HoldsStaging(w2))

\* ===================================================================== C21
\* C21: a stage is released only after its buffers were stopped and its
\* threads joined; no ring is deleted while a worker of the stage or of a
\* peer stage still uses it, no worker of a destroyed stage is still running
\* (its staging records are gone), and every ring is deleted at most once,
\* by the output port that created it.
C21_TeardownOrder ==
  /\ \A b \in destroyed :
        /\ b \in joined
        /\ \A r \in BufsOf(buffered_sockets_out(b)) : rings[r].stopped
  /\ \A w \in Workers :
        /\ w[1] \in destroyed => pc[w] \in {"idle", "done"}
        /\ \A r \in Touches(w) : r # Wild => Deletes(r) = {}
  /\ \A r \in 1..Len(rings) :
        /\ Cardinality(Deletes(r)) <= 1
        /\ \A d \in Deletes(r) : FirstRing(d[1]) = r /\ d[2] = 1

\* ===================================================================== C22
OutPorts == {p \in Ports : PortDef[p].dir # SckIN}

\* C22: every output port holds as many staging records as rings, at least
\* one of each, every entry of its list being a ring that exists; a thread
\* inside push or wait_push indexes a position both lists have; and a
\* bind_cpy that returns 0 adds exactly one ring and one staging record to
\* the producer port and one reference, to that new ring, to the consumer
\* port, and touches no other port.
C22_StagingMatchesBuffers ==
  /\ [](\A p \in OutPorts :
           /\ Len(socket_data[p]) = Len(buffer[p])
           /\ Len(buffer[p]) >= 1
           /\ \A i \in 1..Len(buffer[p]) : buffer[p][i] \in 1..Len(rings))
  /\ [](\A t \in Producers :
           pc[t] \in {"pushbuf", "wpushbuf"}
           => /\ bi[t] \in 1..Len(buffer[ClientPort(t)])
              /\ bi[t] \in 1..Len(socket_data[ClientPort(t)]))
  /\ [][\A this \in Ports : \A s \in Ports :
          (Sock_bind_cpy(this, s) /\ lastcall'.rc = 0)
          => /\ Len(rings') = Len(rings) + 1
             /\ buffer'[s] = Append(buffer[s], Len(rings'))
             /\ Len(socket_data'[s]) = Len(socket_data[s]) + 1
             /\ buffer'[this] = Append(buffer[this], Len(rings'))
             /\ socket_data'[this] = socket_data[this]
             /\ \A q \in Ports \ {this, s} :
                   buffer'[q] = buffer[q] /\ socket_data'[q] = socket_data[q]]_vars

\* C22 witness: after two successful bind_cpy calls the producer port has
\* three rings and three staging records, and the producer's push is at the
\* third position.
C22_Witness ==
  /\ Len(buffer["source.U_K"]) = 3
  /\ Len(socket_data["source.U_K"]) = 3
  /\ Len(rings) = 4
  /\ pc[<<"prod", 1>>] = "pushbuf"
  /\ bi[<<"prod", 1>>] = 3

\* ===================================================================== C23
\* the stage whose output port created ring r
Owner(r) == {PortDef[p].blk : p \in {q \in OutPorts : r \in BufsOf(<<q>>)}}

\* the stages that are run and have popped from ring r, or are about to:
\* the stages with an input port bound to r
ReaderStages(r) ==
  {c \in ran : \E k \in 1..Len(buffered_sockets_in(c)) :
                  /\ ~BadBuf(buffered_sockets_in(c)[k])
                  /\ buffer[buffered_sockets_in(c)[k]][1] = r}

\* the stages that are run form a pipeline wired with Block::bind: every
\* input port of a stage that is run is bound to a ring of a stage that is
\* run, and every ring of an output port of a stage that is run feeds the
\* input ports of one stage that is run
Wired ==
  /\ ran \subseteq RunBlocks
  /\ "source" \in ran
  /\ \A b \in ran :
        /\ InputsBound(b)
        /\ \A k \in 1..Len(buffered_sockets_in(b)) :
              Owner(buffer[buffered_sockets_in(b)[k]][1]) \subseteq ran
        /\ \A r \in BufsOf(buffered_sockets_out(b)) :
              Cardinality(ReaderStages(r)) = 1

\* every record the producing task had to write has been written, pushed
\* into every ring of its output port and popped from it, and every
\* consuming stage has executed on every complete set of inputs
AllDelivered ==
  /\ emitted["source"] = MaxRec
  /\ \A r \in BufsOf(buffered_sockets_out("source")) :
        /\ pushed[r] = [i \in 1..MaxRec |-> i]
        /\ Len(popped[r]) >= MaxRec
        /\ is_empty(rings[r])
  /\ \A b \in ran \ {"source"} :
        Len(execd[b]) >= MaxRec \div Len(buffered_sockets_in(b))

====
